---- MODULE Spec2Model ----
(***************************************************************************)
(* Model of smartdownsample/core.py: select_distinct and its two greedy    *)
(* selectors (_rolling_window_selection, _exact_greedy_selection).         *)
(*                                                                         *)
(* Strings are sequences of one-character strings.  An invocation of       *)
(* select_distinct is a record of its arguments and locals; the module     *)
(* level random generator (random.seed / random.choice) is the one piece   *)
(* of state that outlives an invocation and is shared by all of them.      *)
(***************************************************************************)
EXTENDS Integers, Sequences, FiniteSets, TLC

(***************************************************************************)
(* Bounds of the explored inputs.                                          *)
(***************************************************************************)
MaxM == 3
MaxK == 3
MaxW == 2
MaxSeed == 2

Threads == {1, 2}

VARIABLES
    rng,    \* state of the module-level generator of random (shared)
    call,   \* call[t]: arguments, locals and outcome of invocation t
    prev    \* an earlier invocation as its caller saw it: arguments and outcome

vars == << rng, call, prev >>

(***************************************************************************)
(* Strings and their ordering (Python compares str by code point).         *)
(***************************************************************************)
CharCode(c) ==
    CASE c = "." -> 46
      [] c = "/" -> 47
      [] c = "a" -> 97
      [] c = "b" -> 98
      [] c = "c" -> 99
      [] c = "d" -> 100
      [] c = "x" -> 120

RECURSIVE StrLess(_, _)
StrLess(s, t) ==
    IF t = <<>> THEN FALSE
    ELSE IF s = <<>> THEN TRUE
    ELSE IF CharCode(Head(s)) < CharCode(Head(t)) THEN TRUE
    ELSE IF CharCode(Head(s)) > CharCode(Head(t)) THEN FALSE
    ELSE StrLess(Tail(s), Tail(t))

(***************************************************************************)
(* pathlib.Path(p) for a POSIX path: the components between slashes, with *)
(* empty components and "." components dropped; str() joins them again.    *)
(***************************************************************************)
RECURSIVE SplitSlash(_, _)
SplitSlash(s, cur) ==
    IF s = <<>> THEN <<cur>>
    ELSE IF Head(s) = "/" THEN <<cur>> \o SplitSlash(Tail(s), <<>>)
    ELSE SplitSlash(Tail(s), Append(cur, Head(s)))

PathParts(s) ==
    SelectSeq(SplitSlash(s, <<>>), LAMBDA part : part # <<>> /\ part # <<".">>)

PathRoot(s) == IF s # <<>> /\ Head(s) = "/" THEN <<"/">> ELSE <<>>

RECURSIVE JoinSlash(_)
JoinSlash(parts) ==
    IF parts = <<>> THEN <<>>
    ELSE IF Len(parts) = 1 THEN Head(parts)
    ELSE Head(parts) \o <<"/">> \o JoinSlash(Tail(parts))

FormatPath(root, parts) ==
    IF root = <<>> /\ parts = <<>> THEN <<".">> ELSE root \o JoinSlash(parts)

\* str(Path(p))
PathStr(s) == FormatPath(PathRoot(s), PathParts(s))

\* str(Path(p).parent)
PathParent(s) ==
    LET parts == PathParts(s)
    IN  IF parts = <<>> THEN FormatPath(PathRoot(s), <<>>)
        ELSE FormatPath(PathRoot(s), SubSeq(parts, 1, Len(parts) - 1))

\* Path(p).name
PathName(s) ==
    LET parts == PathParts(s)
    IN  IF parts = <<>> THEN <<>> ELSE parts[Len(parts)]

\* the sort key (str(p.parent), p.name) compared as a tuple
KeyLess(p, q) ==
    \/ StrLess(PathParent(p), PathParent(q))
    \/ /\ PathParent(p) = PathParent(q)
       /\ StrLess(PathName(p), PathName(q))

\* sorted() is stable: an element goes after every element not greater than it
RECURSIVE InsertSorted(_, _)
InsertSorted(p, sorted) ==
    IF sorted = <<>> THEN <<p>>
    ELSE IF KeyLess(p, Head(sorted)) THEN <<p>> \o sorted
    ELSE <<Head(sorted)>> \o InsertSorted(p, Tail(sorted))

RECURSIVE StableSort(_)
StableSort(paths) ==
    IF paths = <<>> THEN <<>>
    ELSE InsertSorted(paths[Len(paths)], StableSort(SubSeq(paths, 1, Len(paths) - 1)))

_sort_paths_by_directory(image_paths) ==
    LET sorted_paths == StableSort(image_paths)
    IN  [i \in 1..Len(sorted_paths) |-> PathStr(sorted_paths[i])]

(***************************************************************************)
(* The images on disk.  Image.open resolves a path to a file, so "./a" and *)
(* "a" name the same file; phash yields the file's hash, printed by        *)
(* str(hash) as a hex string.  A missing or corrupt file makes the body of *)
(* the try block raise.                                                    *)
(***************************************************************************)
ImagePaths ==
    { <<"a">>, <<".", "/", "a">>, <<"b">>, <<"c">>, <<"d", "/", "a">>, <<"x">> }

ImageOpenFails(path) == PathStr(path) \notin { <<"a">>, <<"b">>, <<"c">>, <<"d", "/", "a">> }

imagehash_phash(path) ==
    CASE PathStr(path) = <<"a">> -> <<"0">>
      [] PathStr(path) = <<"b">> -> <<"f">>
      [] PathStr(path) = <<"c">> -> <<"f">>
      [] PathStr(path) = <<"d", "/", "a">> -> <<"3">>

\* str(p) of a path given as a string
PyStr(p) == p

\* _calculate_hashes: the paths whose hash was produced, in input order
RECURSIVE _calculate_hashes(_)
_calculate_hashes(image_paths) ==
    IF image_paths = <<>> THEN [hashes |-> <<>>, valid_paths |-> <<>>]
    ELSE LET rest == _calculate_hashes(Tail(image_paths))
             path == Head(image_paths)
         IN  IF ImageOpenFails(path) THEN rest
             ELSE [hashes      |-> <<imagehash_phash(path)>> \o rest.hashes,
                   valid_paths |-> <<PyStr(path)>> \o rest.valid_paths]

HexDigits ==
    << "0", "1", "2", "3", "4", "5", "6", "7", "8", "9", "a", "b", "c", "d", "e", "f" >>

\* int(hex_char, 16)
HexValue(hex_char) == (CHOOSE i \in 1..16 : HexDigits[i] = hex_char) - 1

\* format(v, '04b') as a list of ints
FourBits(v) == << (v \div 8) % 2, (v \div 4) % 2, (v \div 2) % 2, v % 2 >>

RECURSIVE _hash_to_binary_array(_)
_hash_to_binary_array(hex_str) ==
    IF hex_str = <<>> THEN <<>>
    ELSE FourBits(HexValue(Head(hex_str))) \o _hash_to_binary_array(Tail(hex_str))

(***************************************************************************)
(* Distances are fractions; float('inf') and the initial -1 are fractions  *)
(* too, so that the comparisons of the scan are the code's comparisons.    *)
(***************************************************************************)
Frac(n, d) == [num |-> n, den |-> d]
Infinity == Frac(1, 0)
DistLess(x, y) == x.num * y.den < y.num * x.den

Max(x, y) == IF x > y THEN x ELSE y

\* [variant: the count of differing positions is not divided by the length]
HammingCount(arr1, arr2) ==
    Frac(Cardinality({ i \in 1..Len(arr1) : arr1[i] # arr2[i] }), 1)

\* arr1 != arr2 is elementwise when the shapes agree or one array has a
\* single element, which is then compared with every element of the other
Broadcastable(arr1, arr2) ==
    Len(arr1) = Len(arr2) \/ Len(arr1) = 1 \/ Len(arr2) = 1

\* np.sum(arr1 != arr2) / len(arr1); on shapes that do not agree, the value
\* where the comparison as a whole yields True (numpy before 1.25)
_hamming_distance(arr1, arr2) ==
    IF Broadcastable(arr1, arr2)
    THEN LET n == Max(Len(arr1), Len(arr2))
             At(arr, i) == IF Len(arr) = 1 THEN arr[1] ELSE arr[i]
         IN  Frac(Cardinality({ i \in 1..n : At(arr1, i) # At(arr2, i) }), Len(arr1))
    ELSE Frac(1, Len(arr1))

\* min(x, y) of Python: y only when y < x
PyMin(x, y) == IF DistLess(y, x) THEN y ELSE x

\* iteration order of a set of small ints built by set(range(n)): ascending
RECURSIVE SetOrder(_)
SetOrder(S) ==
    IF S = {} THEN <<>>
    ELSE LET m == CHOOSE x \in S : \A y \in S : x <= y
         IN  <<m>> \o SetOrder(S \ {m})

\* [variant: the inner loop keeps the distance to the last compared index]
MinDistanceToLast(hash_arrays, candidate_idx, compared) ==
    IF compared = <<>> THEN Infinity
    ELSE _hamming_distance(hash_arrays[candidate_idx + 1],
                           hash_arrays[compared[Len(compared)] + 1])

\* the inner loop: minimum distance of a candidate to the compared indices
RECURSIVE MinDistanceTo(_, _, _)
MinDistanceTo(hash_arrays, candidate_idx, compared) ==
    IF compared = <<>> THEN Infinity
    ELSE LET before == MinDistanceTo(hash_arrays, candidate_idx,
                                     SubSeq(compared, 1, Len(compared) - 1))
             distance == _hamming_distance(hash_arrays[candidate_idx + 1],
                                           hash_arrays[compared[Len(compared)] + 1])
         IN  PyMin(before, distance)

NoCandidate == -1

\* [variant: the scan replaces the best also on an equal value]
RECURSIVE ScanCandidatesLast(_, _, _, _)
ScanCandidatesLast(hash_arrays, candidates, compared, best) ==
    IF candidates = <<>> THEN best
    ELSE LET candidate_idx == Head(candidates)
             min_distance  == MinDistanceTo(hash_arrays, candidate_idx, compared)
         IN  IF ~ DistLess(min_distance, best.max_min_distance)
             THEN ScanCandidatesLast(hash_arrays, Tail(candidates), compared,
                                     [max_min_distance |-> min_distance,
                                      best_candidate   |-> candidate_idx])
             ELSE ScanCandidatesLast(hash_arrays, Tail(candidates), compared, best)

\* the scan over remaining_indices: replaces the best only on a greater value
RECURSIVE ScanCandidates(_, _, _, _)
ScanCandidates(hash_arrays, candidates, compared, best) ==
    IF candidates = <<>> THEN best
    ELSE LET candidate_idx == Head(candidates)
             min_distance  == MinDistanceTo(hash_arrays, candidate_idx, compared)
         IN  IF DistLess(best.max_min_distance, min_distance)
             THEN ScanCandidates(hash_arrays, Tail(candidates), compared,
                                 [max_min_distance |-> min_distance,
                                  best_candidate   |-> candidate_idx])
             ELSE ScanCandidates(hash_arrays, Tail(candidates), compared, best)

\* [variant: the scan stops at the first candidate]
BestCandidateFirst(hash_arrays, remaining_indices, compared) ==
    ScanCandidates(hash_arrays, SubSeq(SetOrder(remaining_indices), 1, 1), compared,
                   [max_min_distance |-> Frac(-1, 1),
                    best_candidate   |-> NoCandidate])

\* [variant: the scan starts from the greatest distance, 1]
BestCandidateFromOne(hash_arrays, remaining_indices, compared) ==
    ScanCandidates(hash_arrays, SetOrder(remaining_indices), compared,
                   [max_min_distance |-> Frac(1, 1),
                    best_candidate   |-> NoCandidate])

BestCandidate(hash_arrays, remaining_indices, compared) ==
    ScanCandidates(hash_arrays, SetOrder(remaining_indices), compared,
                   [max_min_distance |-> Frac(-1, 1),
                    best_candidate   |-> NoCandidate])

\* [variant: the window starts one element later]
WindowShort(selected_indices, window_size) ==
    LET window_start == Max(0, Len(selected_indices) - window_size + 1)
    IN  IF window_start >= Len(selected_indices) THEN <<>>
        ELSE SubSeq(selected_indices, window_start + 1, Len(selected_indices))

\* [variant: the window is the whole selected sequence]
WindowWhole(selected_indices, window_size) == selected_indices

\* selected_indices[max(0, len(selected_indices) - window_size):]
WindowIndices(selected_indices, window_size) ==
    LET window_start == Max(0, Len(selected_indices) - window_size)
    IN  IF window_start >= Len(selected_indices) THEN <<>>
        ELSE SubSeq(selected_indices, window_start + 1, Len(selected_indices))

\* what a selection step compares the candidates with
ComparedIndices(method, selected_indices, window_size) ==
    IF method = "rolling_window" THEN WindowIndices(selected_indices, window_size)
    ELSE selected_indices

(***************************************************************************)
(* The module-level generator of random.  Its state is determined by the   *)
(* last seed and the number of draws since; random.choice draws once, and  *)
(* the element drawn is a function of that state and of the length of the  *)
(* sequence.  An interpreter starts with the generator in some state.      *)
(***************************************************************************)
Seeds == 0..MaxSeed

\* [variant: the call leaves the generator as it found it]
RandomSeedKept(random_seed) == rng

RandomSeed(random_seed) == [seed |-> random_seed, draws |-> 0]

\* random.choice(seq) in generator state g: the element drawn
RandomChoice(g, seq) == seq[((g.seed + g.draws) % Len(seq)) + 1]

RandomAdvance(g) == [g EXCEPT !.draws = g.draws + 1]

(***************************************************************************)
(* Invocations of select_distinct.                                         *)
(***************************************************************************)
Methods == { "rolling_window", "exact", "greedy" }

IsInjective(seq) == \A i, j \in 1..Len(seq) : seq[i] = seq[j] => i = j

\* the lists of image paths given to a call: distinct entries, at most MaxM
InputLists ==
    { seq \in UNION { [1..n -> ImagePaths] : n \in 0..MaxM } : IsInjective(seq) }

Idle ==
    [ pc |-> "idle", outcome |-> "none",
      image_paths |-> <<>>, target_count |-> 0, method |-> "exact",
      window_size |-> 0, random_seed |-> 0, show_progress |-> FALSE,
      hashes |-> <<>>, valid_paths |-> <<>>, hash_arrays |-> <<>>,
      selected_indices |-> <<>>, remaining_indices |-> {},
      result |-> <<>>, n_seeded |-> 0, n_hashed |-> 0, n_steps |-> 0 ]

Entered(image_paths, target_count, method, window_size, random_seed, show_progress) ==
    [ Idle EXCEPT !.image_paths = image_paths, !.target_count = target_count,
                  !.method = method, !.window_size = window_size,
                  !.random_seed = random_seed, !.show_progress = show_progress ]

\* the arguments of an invocation as they were at entry
Arguments(c) ==
    Entered(c.image_paths, c.target_count, c.method, c.window_size,
            c.random_seed, c.show_progress)

NoPrev ==
    [ set |-> FALSE, between |-> FALSE, args |-> Idle, outcome |-> "none", result |-> <<>> ]

\* [variant: the dispatch has no else branch that raises]
AnyMethod(method) == TRUE

\* the branches of select_distinct's dispatch on the method name
KnownMethod(method) == method = "rolling_window" \/ method = "exact"

\* select_distinct: the dispatch on the method name, entered with the arguments
Dispatch(c) ==
    IF KnownMethod(c.method) THEN [c EXCEPT !.pc = "seed"]
    ELSE [c EXCEPT !.pc = "done", !.outcome = "ValueError"]

\* a caller invokes select_distinct
SelectDistinct(t, inputs) ==
    /\ call[t].pc = "idle"
    /\ \E image_paths \in inputs.lists, target_count \in inputs.counts,
          method \in inputs.methods, random_seed \in inputs.seeds,
          show_progress \in inputs.progress :
         \E window_size \in IF method = "rolling_window" THEN inputs.windows ELSE { MaxW } :
            call' = [call EXCEPT ![t] =
                       Dispatch(Entered(image_paths, target_count, method,
                                        window_size, random_seed, show_progress))]
    /\ UNCHANGED << rng, prev >>

\* random.seed(random_seed) [np.random.seed seeds a generator nothing reads]
SeedRandom(t) ==
    /\ call[t].pc = "seed"
    /\ rng' = RandomSeed(call[t].random_seed)
    /\ call' = [call EXCEPT ![t].pc = "check_len",
                            ![t].n_seeded = call[t].n_seeded + 1]
    /\ UNCHANGED prev

\* [variant: the comparison is strict]
InputFitsStrict(image_paths, target_count) == Len(image_paths) < target_count

\* if len(image_paths) <= target_count
InputFits(image_paths, target_count) == Len(image_paths) <= target_count

\* return [str(p) for p in image_paths]
ShortCircuit(t) ==
    /\ call[t].pc = "check_len"
    /\ InputFits(call[t].image_paths, call[t].target_count)
    /\ call' = [call EXCEPT ![t].pc = "done", ![t].outcome = "returned",
                            ![t].result = [i \in 1..Len(call[t].image_paths) |->
                                              PyStr(call[t].image_paths[i])]]
    /\ UNCHANGED << rng, prev >>

\* what _calculate_hashes is given: the sorted paths in rolling_window mode
HashedPaths(method, image_paths) ==
    IF method = "rolling_window" THEN _sort_paths_by_directory(image_paths)
    ELSE image_paths

\* sorting (rolling_window) and hashing
ComputeHashes(t) ==
    /\ call[t].pc = "check_len"
    /\ ~ InputFits(call[t].image_paths, call[t].target_count)
    /\ LET hashed == HashedPaths(call[t].method, call[t].image_paths)
           found  == _calculate_hashes(hashed)
       IN  call' = [call EXCEPT ![t].pc = "check_valid",
                                ![t].valid_paths = found.valid_paths,
                                ![t].hashes = found.hashes,
                                ![t].n_hashed = Len(hashed)]
    /\ UNCHANGED << rng, prev >>

\* if len(valid_paths) <= target_count: return valid_paths
ReturnValid(t) ==
    /\ call[t].pc = "check_valid"
    /\ Len(call[t].valid_paths) <= call[t].target_count
    /\ call' = [call EXCEPT ![t].pc = "done", ![t].outcome = "returned",
                            ![t].result = call[t].valid_paths]
    /\ UNCHANGED << rng, prev >>

\* hash_arrays = np.array([_hash_to_binary_array(h) for h in hashes])
ConvertHashes(t) ==
    /\ call[t].pc = "check_valid"
    /\ Len(call[t].valid_paths) > call[t].target_count
    /\ call' = [call EXCEPT ![t].pc = "selector",
                            ![t].hash_arrays =
                                [i \in 1..Len(call[t].hashes) |->
                                    _hash_to_binary_array(call[t].hashes[i])]]
    /\ UNCHANGED << rng, prev >>

(***************************************************************************)
(* The selectors.  Indices are the code's 0-based indices into             *)
(* hash_arrays and valid_paths.                                            *)
(***************************************************************************)
RangeSet(n) == 0..(n - 1)

\* [valid_paths[i] for i in selected_indices]
SelectedPaths(valid_paths, selected_indices) ==
    [k \in 1..Len(selected_indices) |-> valid_paths[selected_indices[k] + 1]]

\* the head of both selectors: the early return and the random start
FirstPick(t) ==
    /\ call[t].pc = "selector"
    /\ UNCHANGED prev
    /\ LET n_images == Len(call[t].hash_arrays)
           remaining_indices == RangeSet(n_images)
           first_idx == RandomChoice(rng, SetOrder(remaining_indices))
       IN  IF call[t].target_count >= n_images
           THEN \* return list(range(n_images))
                /\ call' = [call EXCEPT ![t].pc = "done", ![t].outcome = "returned",
                                        ![t].selected_indices = SetOrder(remaining_indices),
                                        ![t].result = call[t].valid_paths]
                /\ UNCHANGED rng
           ELSE IF remaining_indices = {}
           THEN \* random.choice([]) raises
                /\ call' = [call EXCEPT ![t].pc = "done", ![t].outcome = "IndexError"]
                /\ UNCHANGED rng
           ELSE /\ call' = [call EXCEPT ![t].pc = "loop",
                                        ![t].selected_indices = << first_idx >>,
                                        ![t].remaining_indices = remaining_indices \ { first_idx }]
                /\ rng' = RandomAdvance(rng)

\* tqdm(total=target_count-1) has no iterable to iterate over
IterableOf(show_progress, total) ==
    IF show_progress THEN "None" ELSE "range"

\* for _ in iterator: iterating None raises TypeError
ProgressRaises(t) ==
    /\ call[t].pc = "loop"
    /\ IterableOf(call[t].show_progress, call[t].target_count - 1) = "None"
    /\ call' = [call EXCEPT ![t].pc = "done", ![t].outcome = "TypeError"]
    /\ UNCHANGED << rng, prev >>

\* [variant: the loop body leaves the chosen index in the pool]
StepWithKept(c, compared) ==
    LET best == BestCandidate(c.hash_arrays, c.remaining_indices, compared)
    IN  [c EXCEPT !.selected_indices = Append(c.selected_indices, best.best_candidate),
                  !.n_steps = c.n_steps + 1]

\* one pass of the loop body: scan, append, remove
StepWith(c, compared) ==
    LET best == BestCandidate(c.hash_arrays, c.remaining_indices, compared)
    IN  [c EXCEPT !.selected_indices = Append(c.selected_indices, best.best_candidate),
                  !.remaining_indices = c.remaining_indices \ { best.best_candidate },
                  !.n_steps = c.n_steps + 1]

LoopRuns(c) ==
    /\ c.pc = "loop"
    /\ IterableOf(c.show_progress, c.target_count - 1) = "range"
    /\ c.n_steps < c.target_count - 1

\* arr1 != arr2 on shapes that do not agree raises (numpy from 1.25 on):
\* the scan meets such a pair and the selector ends in the error
CompareRaises(t) ==
    /\ LoopRuns(call[t])
    /\ \E candidate_idx \in call[t].remaining_indices :
          \E k \in 1..Len(call[t].selected_indices) :
             LET compared == ComparedIndices(call[t].method, call[t].selected_indices,
                                             call[t].window_size)
             IN  /\ k <= Len(compared)
                 /\ ~ Broadcastable(call[t].hash_arrays[candidate_idx + 1],
                                    call[t].hash_arrays[compared[k] + 1])
    /\ call' = [call EXCEPT ![t].pc = "done", ![t].outcome = "ValueError"]
    /\ UNCHANGED << rng, prev >>

\* _rolling_window_selection: one iteration of the loop
RollingStep(t) ==
    /\ LoopRuns(call[t])
    /\ call[t].method = "rolling_window"
    /\ call' = [call EXCEPT ![t] =
                  StepWith(call[t], WindowIndices(call[t].selected_indices,
                                                  call[t].window_size))]
    /\ UNCHANGED << rng, prev >>

\* _exact_greedy_selection: one iteration of the loop
ExactStep(t) ==
    /\ LoopRuns(call[t])
    /\ call[t].method = "exact"
    /\ call' = [call EXCEPT ![t] = StepWith(call[t], call[t].selected_indices)]
    /\ UNCHANGED << rng, prev >>

\* the loop is exhausted: the selector returns and the paths are looked up
ReturnSelected(t) ==
    /\ call[t].pc = "loop"
    /\ IterableOf(call[t].show_progress, call[t].target_count - 1) = "range"
    /\ call[t].n_steps >= call[t].target_count - 1
    /\ call' = [call EXCEPT ![t].pc = "done", ![t].outcome = "returned",
                            ![t].result = SelectedPaths(call[t].valid_paths,
                                                        call[t].selected_indices)]
    /\ UNCHANGED << rng, prev >>

\* the call has ended: its locals are discarded, the generator stays as it is
Finish(t) ==
    /\ call[t].pc = "done"
    /\ call' = [call EXCEPT ![t] = Idle]
    /\ prev' = IF prev.set THEN [prev EXCEPT !.between = TRUE] ELSE prev
    /\ UNCHANGED rng

\* the same, and the caller keeps the arguments and what came back
Remember(t) ==
    /\ call[t].pc = "done"
    /\ ~ prev.set
    /\ call' = [call EXCEPT ![t] = Idle]
    /\ prev' = [ set |-> TRUE, between |-> FALSE, args |-> Arguments(call[t]),
                 outcome |-> call[t].outcome, result |-> call[t].result ]
    /\ UNCHANGED rng

Step(t) ==
    \/ Finish(t)
    \/ SeedRandom(t)
    \/ ShortCircuit(t)
    \/ ComputeHashes(t)
    \/ ReturnValid(t)
    \/ ConvertHashes(t)
    \/ FirstPick(t)
    \/ ProgressRaises(t)
    \/ RollingStep(t)
    \/ ExactStep(t)
    \/ ReturnSelected(t)

(***************************************************************************)
(* Sequential use: one caller, one invocation after the other.             *)
(***************************************************************************)
AllInputs ==
    [ lists |-> InputLists, counts |-> (0 - 1)..MaxK, methods |-> Methods,
      windows |-> 0..MaxW, seeds |-> Seeds, progress |-> BOOLEAN ]

Init ==
    /\ rng \in [ seed : Seeds, draws : { 0 } ]
    /\ call = [t \in Threads |-> Idle]
    /\ prev = NoPrev

Next ==
    \/ SelectDistinct(1, AllInputs)
    \/ Step(1)

Spec == Init /\ [][Next]_vars

(***************************************************************************)
(* Small inputs for the specifications that pair two invocations.          *)
(***************************************************************************)
SmallInputs ==
    [ lists |-> { << <<"a">>, <<"b">>, <<"d", "/", "a">> >>, << <<"x">>, <<"a">> >> },
      counts |-> 1..2, methods |-> { "rolling_window", "exact" },
      windows |-> { 1 }, seeds |-> Seeds, progress |-> BOOLEAN ]

(***************************************************************************)
(* Repeated use: one caller that keeps the outcome of one invocation and   *)
(* goes on calling.                                                        *)
(***************************************************************************)
RepeatNext ==
    \/ SelectDistinct(1, SmallInputs)
    \/ Step(1)
    \/ Remember(1)

RepeatSpec == Init /\ [][RepeatNext]_vars

(***************************************************************************)
(* Concurrent use: two callers (threads of one interpreter) whose          *)
(* invocations interleave between the steps above.                         *)
(***************************************************************************)
ConcNext ==
    \E t \in Threads :
        \/ SelectDistinct(t, SmallInputs)
        \/ Step(t)

ConcSpec == Init /\ [][ConcNext]_vars

(***************************************************************************)
(* select_distinct run from entry to end with nothing else running: the    *)
(* same steps composed in program order on a generator of its own.         *)
(***************************************************************************)
RECURSIVE RunLoop(_)
RunLoop(c) ==
    IF c.n_steps >= c.target_count - 1 THEN c
    ELSE RunLoop(StepWith(c, ComparedIndices(c.method, c.selected_indices, c.window_size)))

RunAlone(c) ==
    IF ~ KnownMethod(c.method) THEN [outcome |-> "ValueError", result |-> <<>>]
    ELSE IF InputFits(c.image_paths, c.target_count)
    THEN [outcome |-> "returned",
          result  |-> [i \in 1..Len(c.image_paths) |-> PyStr(c.image_paths[i])]]
    ELSE LET found == _calculate_hashes(HashedPaths(c.method, c.image_paths))
             n_images == Len(found.valid_paths)
         IN  IF n_images <= c.target_count
             THEN [outcome |-> "returned", result |-> found.valid_paths]
             ELSE IF n_images = 0 THEN [outcome |-> "IndexError", result |-> <<>>]
             ELSE IF IterableOf(c.show_progress, c.target_count - 1) = "None"
             THEN [outcome |-> "TypeError", result |-> <<>>]
             ELSE LET first_idx == RandomChoice(RandomSeed(c.random_seed),
                                                SetOrder(RangeSet(n_images)))
                      last == RunLoop([c EXCEPT
                                  !.hash_arrays = [i \in 1..n_images |->
                                        _hash_to_binary_array(found.hashes[i])],
                                  !.selected_indices = << first_idx >>,
                                  !.remaining_indices = RangeSet(n_images) \ { first_idx }])
                  IN  [outcome |-> "returned",
                       result  |-> SelectedPaths(found.valid_paths, last.selected_indices)]

Returned(c) == c.pc = "done" /\ c.outcome = "returned"

(***************************************************************************)
(* The selectors called on their own: _rolling_window_selection and        *)
(* _exact_greedy_selection take the fingerprint array, the target count    *)
(* (and the window size) and return the selected indices.  The array is    *)
(* any sequence of fingerprints; the generator is in some state.           *)
(***************************************************************************)
MaxN == 4

Fingerprints == { <<0, 0>>, <<0, 1>>, <<1, 1>> }

\* the arrays of up to MaxN fingerprints of one length
FingerprintArrays == UNION { [1..n -> Fingerprints] : n \in 1..MaxN }

\* a caller invokes one of the two selectors
CallSelector(t, inputs) ==
    /\ call[t].pc = "idle"
    /\ \E hash_arrays \in inputs.arrays, target_count \in inputs.counts,
          method \in inputs.methods, show_progress \in inputs.progress :
         \E window_size \in IF method = "rolling_window" THEN inputs.windows ELSE { MaxW } :
            call' = [call EXCEPT ![t] =
                       [Idle EXCEPT !.pc = "selector", !.hash_arrays = hash_arrays,
                                    !.target_count = target_count, !.method = method,
                                    !.window_size = window_size,
                                    !.show_progress = show_progress]]
    /\ \E seed \in inputs.seeds : rng' = [seed |-> seed, draws |-> 0]
    /\ UNCHANGED prev

\* the loop is exhausted: return selected_indices
ReturnIndices(t) ==
    /\ call[t].pc = "loop"
    /\ IterableOf(call[t].show_progress, call[t].target_count - 1) = "range"
    /\ call[t].n_steps >= call[t].target_count - 1
    /\ call' = [call EXCEPT ![t].pc = "done", ![t].outcome = "returned"]
    /\ UNCHANGED << rng, prev >>

\* arrays of two or three fingerprints that are not all of one length
RaggedArrays ==
    { hash_arrays \in UNION { [1..n -> { <<0, 0>>, <<1>>, <<1, 1, 1>> }] : n \in 2..3 } :
         \E i, j \in 1..Len(hash_arrays) : Len(hash_arrays[i]) # Len(hash_arrays[j]) }

SelectorInputs ==
    [ arrays |-> FingerprintArrays \cup RaggedArrays, counts |-> 1..MaxK,
      methods |-> { "rolling_window", "exact" }, windows |-> 0..MaxW,
      seeds |-> Seeds, progress |-> BOOLEAN ]

SelectorNext ==
    \/ CallSelector(1, SelectorInputs)
    \/ FirstPick(1)
    \/ ProgressRaises(1)
    \/ CompareRaises(1)
    \/ RollingStep(1)
    \/ ExactStep(1)
    \/ ReturnIndices(1)
    \/ Finish(1)

SelectorSpec == Init /\ [][SelectorNext]_vars

(***************************************************************************)
(* _hamming_distance called on its own with two fingerprints of one        *)
(* length: arrays of 0s and 1s, as _hash_to_binary_array makes them.       *)
(***************************************************************************)
MaxBits == 3

\* a caller invokes _hamming_distance(arr1, arr2) and gets the distance
HammingCall(t) ==
    /\ call[t].pc = "idle"
    /\ \E n \in 1..MaxBits :
          \E arr1, arr2 \in [1..n -> { 0, 1 }] :
             call' = [call EXCEPT ![t] =
                        [Idle EXCEPT !.pc = "done", !.outcome = "returned",
                                     !.hash_arrays = << arr1, arr2 >>,
                                     !.result = << _hamming_distance(arr1, arr2) >>]]
    /\ UNCHANGED << rng, prev >>

DistanceNext ==
    \/ HammingCall(1)
    \/ Finish(1)

DistanceSpec == Init /\ [][DistanceNext]_vars

(***************************************************************************)
(* Properties.                                                             *)
(***************************************************************************)
Done(c) == c.pc = "done"

ValidPaths(image_paths) == SelectSeq(image_paths, LAMBDA p : ~ ImageOpenFails(p))

AllValid(image_paths) == ValidPaths(image_paths) = image_paths

SameAsAlone(c, args) ==
    /\ c.outcome = RunAlone(args).outcome
    /\ c.result = RunAlone(args).result

\* C1: a call with a known method, M inputs that all have a fingerprint and
\* a target count K < M returns a list of exactly K entries, taken at K
\* different indices of the input pool.
C1_ExactlyK ==
    \A t \in Threads :
        LET c == call[t]
        IN  ( /\ Returned(c)
              /\ KnownMethod(c.method)
              /\ AllValid(c.image_paths)
              /\ Len(c.image_paths) > c.target_count )
            => /\ Len(c.result) = c.target_count
               /\ IsInjective(c.selected_indices)
               /\ \A k \in 1..Len(c.selected_indices) :
                     c.selected_indices[k] \in RangeSet(Len(c.image_paths))

\* C2: a call with M <= K inputs (M = 0 included) returns its M identifiers
\* in input order, without hashing and without running a selector.
C2_ShortCircuit ==
    \A t \in Threads :
        LET c == call[t]
        IN  ( /\ Done(c)
              /\ KnownMethod(c.method)
              /\ Len(c.image_paths) <= c.target_count )
            => /\ c.outcome = "returned"
               /\ c.result = c.image_paths
               /\ c.n_hashed = 0
               /\ c.n_steps = 0
               /\ c.selected_indices = <<>>

C2_Witness ==
    LET c == call[1]
    IN  /\ Done(c) /\ c.outcome = "returned"
        /\ c.method = "rolling_window"
        /\ c.image_paths = << <<"x">>, <<"b">>, <<".", "/", "a">> >>
        /\ c.target_count = 3
        /\ c.result = c.image_paths

\* C3: a call with the arguments of an earlier call ends as that call did,
\* with the same output sequence, whatever ran in between; and when the
\* start index is drawn the generator has been seeded exactly once in this
\* call and is in the state the seed alone determines.
C3_Deterministic ==
    LET c == call[1]
    IN  /\ (Done(c) /\ prev.set /\ Arguments(c) = prev.args)
            => (c.outcome = prev.outcome /\ c.result = prev.result)
        /\ c.pc = "selector"
            => (c.n_seeded = 1 /\ rng = [seed |-> c.random_seed, draws |-> 0])

C3_Witness ==
    LET c == call[1]
    IN  /\ Returned(c) /\ prev.set /\ prev.between
        /\ Arguments(c) = prev.args
        /\ Len(c.selected_indices) = 2
        /\ c.result = prev.result
        /\ c.selected_indices[1] # 0

\* C4: when fewer than K of the inputs have a fingerprint, the call returns
\* (no error) exactly the inputs that have one: each of them, and none
\* whose image could not be opened; for every M, M <= K included.
C4_OnlyValidReturned ==
    \A t \in Threads :
        LET c == call[t]
        IN  ( /\ Done(c)
              /\ KnownMethod(c.method)
              /\ Len(ValidPaths(c.image_paths)) < c.target_count )
            => /\ c.outcome = "returned"
               /\ \A k \in 1..Len(c.result) : ~ ImageOpenFails(c.result[k])
               /\ \A i \in 1..Len(c.image_paths) :
                     ~ ImageOpenFails(c.image_paths[i])
                       => \E k \in 1..Len(c.result) :
                             PathStr(c.result[k]) = PathStr(c.image_paths[i])

\* C5: a call with an unknown method ends at once in the configuration
\* error: nothing is seeded, nothing is hashed, no selection step runs and
\* nothing is returned.
C5_UnknownMethod ==
    \A t \in Threads :
        LET c == call[t]
        IN  (c.pc # "idle" /\ c.method \notin { "rolling_window", "exact" })
            => /\ c.pc = "done"
               /\ c.outcome = "ValueError"
               /\ c.n_seeded = 0
               /\ c.n_hashed = 0
               /\ c.n_steps = 0
               /\ c.selected_indices = <<>>
               /\ c.result = <<>>

C5_Witness ==
    LET c == call[1]
    IN  /\ Done(c) /\ c.outcome = "ValueError"
        /\ c.method = "greedy"
        /\ c.target_count = 2
        /\ Len(c.image_paths) = 3 /\ AllValid(c.image_paths)
        /\ rng.seed # c.random_seed

\* C6: a call with K <= 0, or with W <= 0 in rolling_window mode, ends in a
\* configuration error before anything is hashed or selected, and returns
\* no selection.
C6_NonPositiveRejected ==
    \A t \in Threads :
        LET c == call[t]
        IN  ( /\ c.pc # "idle"
              /\ KnownMethod(c.method)
              /\ \/ c.target_count <= 0
                 \/ c.method = "rolling_window" /\ c.window_size <= 0 )
            => /\ c.n_hashed = 0
               /\ c.n_steps = 0
               /\ c.selected_indices = <<>>
               /\ Done(c) => c.outcome = "ValueError"

\* C7: every returned entry is an input identifier in its original form,
\* and different returned entries stand for different inputs.
C7_OriginalIdentifiers ==
    \A t \in Threads :
        LET c == call[t]
        IN  Returned(c)
            => /\ \A k \in 1..Len(c.result) :
                     \E i \in 1..Len(c.image_paths) : c.result[k] = c.image_paths[i]
               /\ IsInjective(c.result)

\* C8: an invocation that runs while another one runs ends as it ends when
\* run alone with the same arguments.
C8_IsolatedInvocations ==
    \A t \in Threads :
        Done(call[t]) => SameAsAlone(call[t], Arguments(call[t]))

\* C9: a call with show_progress = true ends as the call with the same
\* arguments and show_progress = false does: it returns the same sequence
\* (stated for the calls with K >= 1 and W >= 1).
C9_ProgressCosmetic ==
    \A t \in Threads :
        LET c == call[t]
        IN  ( /\ Done(c) /\ c.show_progress
              /\ c.target_count >= 1
              /\ c.method = "rolling_window" => c.window_size >= 1 )
            => SameAsAlone(c, [Arguments(c) EXCEPT !.show_progress = FALSE])

\* the fingerprints form exactly k clusters: distance 0 inside a cluster,
\* distance 1 between clusters
Clustered(hash_arrays, k) ==
    /\ Cardinality({ hash_arrays[i] : i \in 1..Len(hash_arrays) }) = k
    /\ \A i, j \in 1..Len(hash_arrays) :
          LET d == _hamming_distance(hash_arrays[i], hash_arrays[j])
          IN  d.num = 0 \/ d.num = d.den

OnePerCluster(hash_arrays, selected_indices) ==
    /\ IsInjective([k \in 1..Len(selected_indices) |-> hash_arrays[selected_indices[k] + 1]])
    /\ { hash_arrays[selected_indices[k] + 1] : k \in 1..Len(selected_indices) }
          = { hash_arrays[i] : i \in 1..Len(hash_arrays) }

\* ten vectors of length 8: indices 0-4 all zeros, 5-9 all ones
ExampleHashArrays ==
    [i \in 1..10 |-> IF i <= 5 THEN <<0, 0, 0, 0, 0, 0, 0, 0>>
                               ELSE <<1, 1, 1, 1, 1, 1, 1, 1>>]

\* _exact_greedy_selection(ExampleHashArrays, 2) from the start index first_idx
ExampleSelection(first_idx) ==
    RunLoop([Idle EXCEPT !.method = "exact", !.target_count = 2,
                         !.hash_arrays = ExampleHashArrays,
                         !.selected_indices = << first_idx >>,
                         !.remaining_indices = RangeSet(10) \ { first_idx }]).selected_indices

ExampleOnePerCluster ==
    \A first_idx \in RangeSet(10) :
        LET selected_indices == ExampleSelection(first_idx)
        IN  /\ Len(selected_indices) = 2
            /\ Cardinality({ k \in 1..2 : selected_indices[k] \in 0..4 }) = 1
            /\ Cardinality({ k \in 1..2 : selected_indices[k] \in 5..9 }) = 1

\* C10: when exact selection returns on M > K fingerprints that form K
\* clusters, it has selected exactly one index of each cluster, whatever
\* the start index was; so it does on the ten vectors above with K = 2.
C10_OnePerCluster ==
    /\ ExampleOnePerCluster
    /\ \A t \in Threads :
        LET c == call[t]
        IN  ( /\ Returned(c)
              /\ c.method = "exact"
              /\ Len(c.hash_arrays) > c.target_count
              /\ Clustered(c.hash_arrays, c.target_count) )
              => /\ Len(c.selected_indices) = c.target_count
                 /\ OnePerCluster(c.hash_arrays, c.selected_indices)

C10_Witness ==
    LET c == call[1]
    IN  /\ Returned(c)
        /\ c.method = "exact"
        /\ c.target_count = 2
        /\ c.hash_arrays = << <<0, 0, 0, 0>>, <<0, 0, 0, 0>>, <<1, 1, 1, 1>> >>
        /\ c.selected_indices = << 0, 2 >>

\* duplicate pairs one after the other: A, A, B, B with A # B
AlternatingPairs(hash_arrays) ==
    /\ Len(hash_arrays) >= 4
    /\ Len(hash_arrays) % 2 = 0
    /\ \A i \in 1..Len(hash_arrays) :
          IF i % 2 = 1 THEN hash_arrays[i] = hash_arrays[i + 1]
          ELSE i < Len(hash_arrays) => hash_arrays[i] # hash_arrays[i + 1]

\* C11: the rolling-window selector called with window size 1 on an array of
\* alternating duplicate pairs and a target count K < M ends without error
\* and returns exactly K different indices of the array.
C11_WindowOneCompletes ==
    \A t \in Threads :
        LET c == call[t]
        IN  ( /\ Done(c)
              /\ c.method = "rolling_window"
              /\ c.window_size = 1
              /\ AlternatingPairs(c.hash_arrays)
              /\ Len(c.hash_arrays) > c.target_count )
            => /\ c.outcome = "returned"
               /\ Len(c.selected_indices) = c.target_count
               /\ IsInjective(c.selected_indices)
               /\ \A k \in 1..Len(c.selected_indices) :
                     c.selected_indices[k] \in RangeSet(Len(c.hash_arrays))

\* a run of C11's selector that returns two indices of one fingerprint, two
\* steps apart in selection order
C11_Degradation ==
    LET c == call[1]
    IN  /\ Returned(c)
        /\ c.method = "rolling_window"
        /\ c.window_size = 1
        /\ AlternatingPairs(c.hash_arrays)
        /\ c.target_count = 3
        /\ Len(c.selected_indices) = 3
        /\ c.hash_arrays[c.selected_indices[1] + 1] = c.hash_arrays[c.selected_indices[3] + 1]

\* all fingerprints of the array have one length
Uniform(hash_arrays) ==
    \A i, j \in 1..Len(hash_arrays) : Len(hash_arrays[i]) = Len(hash_arrays[j])

\* C12: a selector called on an array holding fingerprints of different
\* lengths performs no selection step and ends in an error, never in a
\* return.
C12_LengthMismatchRejected ==
    \A t \in Threads :
        LET c == call[t]
        IN  (c.pc # "idle" /\ ~ Uniform(c.hash_arrays))
            => /\ c.n_steps = 0
               /\ Done(c) => c.outcome # "returned"

\* the indices of a sequence of indices
Indices(selected_indices) ==
    { selected_indices[k] : k \in 1..Len(selected_indices) }

\* a selector is past its start pick on an array of more than K fingerprints
Selecting(c) ==
    /\ c.pc \in { "loop", "done" }
    /\ c.selected_indices # <<>>
    /\ Len(c.hash_arrays) > c.target_count

\* pool and selected sequence share no index and hold 0..M-1 between them
PoolPartition(c) ==
    /\ IsInjective(c.selected_indices)
    /\ Indices(c.selected_indices) \cap c.remaining_indices = {}
    /\ Indices(c.selected_indices) \cup c.remaining_indices = RangeSet(Len(c.hash_arrays))
    /\ Cardinality(c.remaining_indices) + Len(c.selected_indices) = Len(c.hash_arrays)

\* from c to d: a selection step moves one index from the pool to the end of
\* the selected sequence, and nothing goes back into the pool
PoolShrinks(c, d) ==
    /\ d.n_steps = c.n_steps + 1
          => \E i \in c.remaining_indices :
                /\ d.remaining_indices = c.remaining_indices \ { i }
                /\ d.selected_indices = Append(c.selected_indices, i)
    /\ (c.pc = "loop" /\ d.pc \in { "loop", "done" })
          => /\ d.remaining_indices \subseteq c.remaining_indices
             /\ Indices(c.selected_indices) \subseteq Indices(d.selected_indices)
             /\ d.n_steps = c.n_steps
                   => /\ d.remaining_indices = c.remaining_indices
                      /\ d.selected_indices = c.selected_indices

\* C13: in both selectors, on an array of M > K fingerprints, the pool and
\* the selected sequence are disjoint and hold every index 0..M-1 exactly
\* once between them; each selection step removes exactly one index from the
\* pool and appends that index; a selected index never goes back.
C13_PoolAndSelected ==
    /\ [](\A t \in Threads : Selecting(call[t]) => PoolPartition(call[t]))
    /\ [][\A t \in Threads : PoolShrinks(call[t], call'[t])]_vars

C13_Witness ==
    LET c == call[1]
    IN  /\ c.pc = "loop"
        /\ c.method = "exact"
        /\ c.target_count = 3
        /\ c.n_steps = 2
        /\ c.hash_arrays = << <<0, 0>>, <<1, 1>>, <<1, 1>>, <<0, 1>> >>
        /\ c.selected_indices = << 1, 0, 3 >>
        /\ c.remaining_indices = { 2 }

\* the least Hamming distance from fingerprint i to the fingerprints at the
\* indices S; infinite when there is none to compare with
MinHamming(hash_arrays, i, S) ==
    IF S = {} THEN Infinity
    ELSE LET distances == { _hamming_distance(hash_arrays[i + 1], hash_arrays[s + 1]) : s \in S }
         IN  CHOOSE d \in distances : \A e \in distances : ~ DistLess(e, d)

\* a selector has performed at least one selection step
Stepped(c) == c.pc \in { "loop", "done" } /\ c.n_steps >= 1

\* the selected sequence and the pool as the k-th selection found them
PriorAt(c, k) == SubSeq(c.selected_indices, 1, k - 1)

PoolAt(c, k) ==
    c.remaining_indices \cup { c.selected_indices[j] : j \in k..Len(c.selected_indices) }

\* index chosen is among the indices of pool farthest from the indices S
Farthest(hash_arrays, chosen, pool, S) ==
    \A i \in pool : ~ DistLess(MinHamming(hash_arrays, chosen, S),
                               MinHamming(hash_arrays, i, S))

\* C14: every index that a step of the exact selector moved to the selected
\* sequence had, among the indices then in the pool, the greatest minimum
\* Hamming distance to the whole sequence selected before it.
C14_FarthestPoint ==
    \A t \in Threads :
        LET c == call[t]
        IN  (Stepped(c) /\ c.method = "exact" /\ Uniform(c.hash_arrays))
            => \A k \in 2..Len(c.selected_indices) :
                  Farthest(c.hash_arrays, c.selected_indices[k], PoolAt(c, k),
                           Indices(PriorAt(c, k)))

C14_Witness ==
    LET c == call[1]
    IN  /\ Returned(c)
        /\ c.method = "exact"
        /\ c.target_count = 3
        /\ c.hash_arrays = << <<0, 0>>, <<0, 1>>, <<1, 1>>, <<0, 0>> >>
        /\ c.selected_indices = << 0, 2, 1 >>

\* the last window_size elements of the sequence, all of it when it is shorter
LastOf(selected_indices, window_size) ==
    IF Len(selected_indices) < window_size THEN selected_indices
    ELSE SubSeq(selected_indices, Len(selected_indices) - window_size + 1,
                Len(selected_indices))

\* the array with fingerprint f at the indices of the set outside
Overwritten(hash_arrays, outside, f) ==
    [i \in 1..Len(hash_arrays) |-> IF (i - 1) \in outside THEN f ELSE hash_arrays[i]]

\* the index the k-th selection of the rolling-window call c appends when
\* the fingerprints at the indices outside are f
ChoiceWith(c, k, outside, f) ==
    LET before == [c EXCEPT !.hash_arrays = Overwritten(c.hash_arrays, outside, f),
                            !.selected_indices = PriorAt(c, k),
                            !.remaining_indices = PoolAt(c, k)]
        after  == StepWith(before, WindowIndices(before.selected_indices, c.window_size))
    IN  after.selected_indices[k]

\* C15: at every step of the rolling-window selector with W >= 1 the window
\* is the whole selected sequence while that has fewer than W elements and
\* its last W elements otherwise; the index chosen has the greatest minimum
\* distance to the window among the pool; and the choice stays the same
\* whatever the fingerprints of the selected indices outside the window are.
C15_WindowPolicy ==
    \A t \in Threads :
        LET c == call[t]
        IN  ( /\ Stepped(c) /\ c.method = "rolling_window"
              /\ c.window_size >= 1 /\ Uniform(c.hash_arrays) )
            => \A k \in 2..Len(c.selected_indices) :
                  LET window  == LastOf(PriorAt(c, k), c.window_size)
                      outside == Indices(PriorAt(c, k)) \ Indices(window)
                  IN  /\ WindowIndices(PriorAt(c, k), c.window_size) = window
                      /\ Farthest(c.hash_arrays, c.selected_indices[k], PoolAt(c, k),
                                  Indices(window))
                      /\ \A f \in Fingerprints :
                            ChoiceWith(c, k, outside, f) = c.selected_indices[k]

C15_Witness ==
    LET c == call[1]
    IN  /\ Returned(c)
        /\ c.method = "rolling_window"
        /\ c.window_size = 1
        /\ c.target_count = 3
        /\ c.hash_arrays = << <<0, 0>>, <<1, 1>>, <<1, 1>>, <<0, 1>> >>
        /\ c.selected_indices = << 1, 0, 2 >>

\* the indices of pool that share the greatest minimum distance to S
Tied(hash_arrays, pool, S) ==
    { i \in pool : Farthest(hash_arrays, i, pool, S) }

\* the selection that the array, the start index and the number of steps
\* determine
Replayed(c) ==
    RunLoop([c EXCEPT !.target_count = c.n_steps + 1, !.n_steps = 0,
                      !.selected_indices = << c.selected_indices[1] >>,
                      !.remaining_indices = RangeSet(Len(c.hash_arrays))
                                               \ { c.selected_indices[1] }]).selected_indices

\* C16: in both selectors every index chosen is the lowest of the pool
\* indices that share the greatest minimum distance to the compared
\* indices, and the whole selection is the one that the array, the start
\* index and the number of steps determine.
C16_TieBreak ==
    \A t \in Threads :
        LET c == call[t]
        IN  (Stepped(c) /\ Uniform(c.hash_arrays))
            => /\ \A k \in 2..Len(c.selected_indices) :
                     LET compared == ComparedIndices(c.method, PriorAt(c, k), c.window_size)
                         tied     == Tied(c.hash_arrays, PoolAt(c, k), Indices(compared))
                     IN  /\ c.selected_indices[k] \in tied
                         /\ \A i \in tied : c.selected_indices[k] <= i
               /\ c.selected_indices = Replayed(c)

C16_Witness ==
    LET c == call[1]
    IN  /\ Returned(c)
        /\ c.method = "exact"
        /\ c.target_count = 2
        /\ c.hash_arrays = << <<0, 0>>, <<0, 0>>, <<1, 1>>, <<1, 1>> >>
        /\ c.selected_indices = << 0, 2 >>
        /\ Tied(c.hash_arrays, { 1, 2, 3 }, { 0 }) = { 2, 3 }

\* C17: an invocation with a known method whose selector has made its start
\* pick on M > K >= 1 fingerprints ends by returning, after exactly K-1
\* selection steps, with K indices selected.
C17_SelectorCompletes ==
    \A t \in Threads :
        LET c == call[t]
        IN  ( /\ Done(c)
              /\ KnownMethod(c.method)
              /\ c.selected_indices # <<>>
              /\ Len(c.hash_arrays) > c.target_count
              /\ c.target_count >= 1 )
            => /\ c.outcome = "returned"
               /\ c.n_steps = c.target_count - 1
               /\ Len(c.selected_indices) = c.target_count

\* the number of positions at which two sequences of one length differ
RECURSIVE Differing(_, _)
Differing(a, b) ==
    IF a = <<>> THEN 0
    ELSE (IF Head(a) # Head(b) THEN 1 ELSE 0) + Differing(Tail(a), Tail(b))

\* C18: for fingerprints a, b of one length N >= 1, _hamming_distance(a, b)
\* is the number of positions where they differ divided by N; it lies in
\* [0, 1], equals _hamming_distance(b, a), and is 0 exactly when a = b.
C18_HammingDistance ==
    \A t \in Threads :
        LET c == call[t]
        IN  (Done(c) /\ Len(c.hash_arrays) = 2 /\ Len(c.result) = 1)
            => LET a == c.hash_arrays[1]
                   b == c.hash_arrays[2]
                   d == c.result[1]
               IN  /\ d.den = Len(a)
                   /\ d.num = Differing(a, b)
                   /\ 0 <= d.num /\ d.num <= d.den
                   /\ d = _hamming_distance(b, a)
                   /\ d.num = 0 <=> a = b

C18_Witness ==
    LET c == call[1]
    IN  /\ Done(c)
        /\ c.hash_arrays = << <<0, 1, 1>>, <<1, 1, 0>> >>
        /\ c.result = << Frac(2, 3) >>

\* the index sequence a selector returns for the array, the target count,
\* the window size and the start index first_idx
SelectionFrom(method, hash_arrays, target_count, window_size, first_idx) ==
    RunLoop([Idle EXCEPT !.method = method, !.hash_arrays = hash_arrays,
                         !.target_count = target_count, !.window_size = window_size,
                         !.selected_indices = << first_idx >>,
                         !.remaining_indices = RangeSet(Len(hash_arrays)) \ { first_idx }]
           ).selected_indices

\* with W = 1 < K - 1 = 2 the two selectors part at the second step
WindowTooShortDiffers ==
    LET hash_arrays == << <<0, 0>>, <<1, 1>>, <<1, 1>>, <<0, 1>> >>
    IN  /\ SelectionFrom("rolling_window", hash_arrays, 3, 1, 1) = << 1, 0, 2 >>
        /\ SelectionFrom("exact", hash_arrays, 3, 1, 1) = << 1, 0, 3 >>

\* C19: on an array of M > K >= 1 fingerprints, the rolling-window selector
\* with W >= K-1 has, after every step, selected the sequence that the
\* exact selector selects from the same start index in as many steps; with
\* W < K-1 the two sequences can differ.
C19_WideWindowIsExact ==
    /\ WindowTooShortDiffers
    /\ \A t \in Threads :
          LET c == call[t]
          IN  ( /\ c.pc \in { "loop", "done" }
                /\ c.method = "rolling_window"
                /\ c.selected_indices # <<>>
                /\ Uniform(c.hash_arrays)
                /\ c.target_count >= 1
                /\ Len(c.hash_arrays) > c.target_count
                /\ c.window_size >= c.target_count - 1 )
              => c.selected_indices = Replayed([c EXCEPT !.method = "exact"])

C19_Witness ==
    LET c == call[1]
    IN  /\ Returned(c)
        /\ c.method = "rolling_window"
        /\ c.window_size = 2
        /\ c.target_count = 3
        /\ c.hash_arrays = << <<0, 0>>, <<1, 1>>, <<1, 1>>, <<0, 1>> >>
        /\ c.selected_indices = << 1, 0, 3 >>
        /\ c.selected_indices = SelectionFrom("exact", c.hash_arrays, 3, 2, 1)

\* the max-min distance of the k-th selection of an exact call: the minimum
\* distance of the index chosen to the indices selected before it
Achieved(c, k) ==
    MinHamming(c.hash_arrays, c.selected_indices[k], Indices(PriorAt(c, k)))

\* C20: in the exact selector the max-min distance of the index chosen does
\* not increase from one selection step to the next; and in both selectors
\* every step finds a candidate: the pool is not empty when a step begins,
\* every minimum distance is at least 0, so greater than the initial -1, the
\* scan ends with an index of the pool, and only indices of the array are
\* ever appended.
C20_CandidateFound ==
    \A t \in Threads :
        LET c == call[t]
        IN  /\ c.pc \in { "loop", "done" }
               => \A k \in 1..Len(c.selected_indices) :
                     /\ c.selected_indices[k] # NoCandidate
                     /\ c.selected_indices[k] \in RangeSet(Len(c.hash_arrays))
            /\ LoopRuns(c)
               => LET compared == ComparedIndices(c.method, c.selected_indices,
                                                  c.window_size)
                  IN  /\ c.remaining_indices # {}
                      /\ \A i \in c.remaining_indices :
                            ~ DistLess(MinDistanceTo(c.hash_arrays, i, compared), Frac(0, 1))
                      /\ BestCandidate(c.hash_arrays, c.remaining_indices,
                                       compared).best_candidate \in c.remaining_indices
            /\ (Stepped(c) /\ c.method = "exact" /\ Uniform(c.hash_arrays))
               => \A k \in 2..(Len(c.selected_indices) - 1) :
                     ~ DistLess(Achieved(c, k), Achieved(c, k + 1))

C20_Witness ==
    LET c == call[1]
    IN  /\ Returned(c)
        /\ c.method = "exact"
        /\ c.target_count = 3
        /\ c.hash_arrays = << <<0, 0>>, <<1, 1>>, <<0, 1>>, <<0, 1>> >>
        /\ c.selected_indices = << 0, 1, 2 >>
        /\ Achieved(c, 2) = Frac(2, 2)
        /\ Achieved(c, 3) = Frac(1, 2)

====
